---- MODULE Spec2Model ----
(***************************************************************************)
(* A model of the stochastic image processors of paz/processors/image2.py  *)
(* (AddPlainBackground, AddCroppedBackground, RandomImageCrop,             *)
(* ExpandImage, AddOcclusion) and of the HandKeypoints dataset loader of   *)
(* examples/hand_pose_estimation/hand_keypoints.py.                        *)
(*                                                                         *)
(* Every processor is a state machine of its own: one specification per    *)
(* processor family, all over the same variables, the variables of the     *)
(* other families staying at their idle values.                            *)
(*                                                                         *)
(* Real numbers.  Pixel arithmetic is exact rational arithmetic in units   *)
(* of 1/255 (every float array holds the numerators).  Coordinates and     *)
(* sizes drawn by random.uniform are drawn from the grid of multiples of   *)
(* 1/Res and are held as integer numerators over Res.  Angles are held in  *)
(* units of 1/FullTurn of a full turn.                                      *)
(***************************************************************************)
EXTENDS Integers, Sequences, FiniteSets, TLC

VARIABLES
    \* AddPlainBackground / AddCroppedBackground: configuration
    background_color, image_filepaths, box_size, color_model,
    \* ... and the last call: processor, argument, outcome
    cmpProc, cmpImage, cmpOut, cmpErr, cmpDraws, cmpLoaded, cmpBg, cmpCrop,
    \* RandomImageCrop.call: position, locals, returned value
    cropPc, cropShape, cropMode, cropAttempt, cropTrials, cropRound,
    cropDraw, cropRect, cropCurrent, cropRet,
    \* ExpandImage: configuration and the last call
    expMean, expImage, expDraw, expOut,
    \* AddOcclusion: the last call
    occShape, occNum, occInitial, occCenter, occVertices, occColor,
    \* HandKeypoints: the directory tree, the constructor's arguments, the last call
    fs, ldPath, ldSplit, ldCall, ldErr, ldImagePaths, ldLabelPaths, ldDataset

cmpVars == <<background_color, image_filepaths, box_size, color_model,
             cmpProc, cmpImage, cmpOut, cmpErr, cmpDraws, cmpLoaded, cmpBg, cmpCrop>>
cropVars == <<cropPc, cropShape, cropMode, cropAttempt, cropTrials, cropRound,
              cropDraw, cropRect, cropCurrent, cropRet>>
expVars == <<expMean, expImage, expDraw, expOut>>
occVars == <<occShape, occNum, occInitial, occCenter, occVertices, occColor>>
ldVars == <<fs, ldPath, ldSplit, ldCall, ldErr, ldImagePaths, ldLabelPaths, ldDataset>>
vars == <<cmpVars, cropVars, expVars, occVars, ldVars>>

\* what a step of one family leaves alone
CmpFrame == UNCHANGED <<cropVars, expVars, occVars, ldVars>>
CropFrame == UNCHANGED <<cmpVars, expVars, occVars, ldVars>>
ExpFrame == UNCHANGED <<cmpVars, cropVars, occVars, ldVars>>
OccFrame == UNCHANGED <<cmpVars, cropVars, expVars, ldVars>>
LdFrame == UNCHANGED <<cmpVars, cropVars, expVars, occVars>>

(***************************************************************************)
(* Bounds of the model.                                                    *)
(***************************************************************************)
\* largest height and width of an input image of the compositors
MaxDim == 3
\* largest height and width of an input image of ExpandImage
MaxExpandSide == 2
\* largest configured box_size of AddCroppedBackground
MaxBox == 2
\* random.uniform draws multiples of 1/Res
Res == 2
\* largest height and width of an input image of RandomImageCrop
MaxCropSide == 4
\* how many times one call of RandomImageCrop may draw a mode
MaxRounds == 2
\* largest number of entries of a directory listing
MaxListing == 4

(***************************************************************************)
(* numpy arrays of shape (h, w, d): px[r][c][k], rows and columns from 0,  *)
(* channels from 1.                                                        *)
(***************************************************************************)
Arr(h, w, d, F(_, _, _)) ==
    [h |-> h, w |-> w, d |-> d,
     px |-> [r \in 0..(h - 1) |-> [c \in 0..(w - 1) |-> [k \in 1..d |-> F(r, c, k)]]]]

\* no array (Python's None where an array is expected)
NoArray == [h |-> 0, w |-> 0, d |-> 0, px |-> <<>>]
\* the value of an expression whose evaluation raised
Raised == [h |-> -1, w |-> -1, d |-> -1, px |-> <<>>]
IsRaised(A) == A.h = -1

\* numpy's broadcasting rule for one dimension; -1: the shapes do not match
BDim(a, b) == IF a = b THEN a ELSE IF a = 1 THEN b ELSE IF b = 1 THEN a ELSE -1

CanBroadcast(A, B) ==
    /\ BDim(A.h, B.h) # -1
    /\ BDim(A.w, B.w) # -1
    /\ BDim(A.d, B.d) # -1

\* the element of A that broadcasting pairs with index (r, c, k)
At(A, r, c, k) ==
    A.px[IF A.h = 1 THEN 0 ELSE r][IF A.w = 1 THEN 0 ELSE c][IF A.d = 1 THEN 1 ELSE k]

\* an elementwise binary operation; it raises when the shapes do not broadcast
Elementwise(Op(_, _), A, B) ==
    IF IsRaised(A) \/ IsRaised(B) \/ ~CanBroadcast(A, B) THEN Raised
    ELSE Arr(BDim(A.h, B.h), BDim(A.w, B.w), BDim(A.d, B.d),
             LAMBDA r, c, k : Op(At(A, r, c, k), At(B, r, c, k)))

\* the denominator of the alpha channel, and of every float held as a numerator
AlphaMax == 255

\* an integer array as a float array (numerators over AlphaMax)
AsFloat(A) == Arr(A.h, A.w, A.d, LAMBDA r, c, k : AlphaMax * A.px[r][c][k])
\* alpha / 255: the numerators over AlphaMax are the channel's values
Div255(A) == A
\* x * y of two floats; exact here, one factor always being a whole number
Times(x, y) == (x * y) \div AlphaMax
Mul(A, B) == Elementwise(Times, A, B)
Add(A, B) == Elementwise(LAMBDA x, y : x + y, A, B)
\* 1.0 - A
OneMinus(A) == Arr(A.h, A.w, A.d, LAMBDA r, c, k : AlphaMax - A.px[r][c][k])
\* np.ones(shape) * color
Ones(h, w, color) == Arr(h, w, Len(color), LAMBDA r, c, k : color[k])

\* np.split(image, [3], -1): channels 1..3 and the channels after them
SplitForeground(image) ==
    Arr(image.h, image.w, IF image.d < 3 THEN image.d ELSE 3,
        LAMBDA r, c, k : image.px[r][c][k])
SplitAlpha(image) ==
    Arr(image.h, image.w, IF image.d < 3 THEN 0 ELSE image.d - 3,
        LAMBDA r, c, k : image.px[r][c][k + 3])

\* A[y_min:y_max, x_min:x_max], numpy clipping the slice to the array
Slice(A, y_min, y_max, x_min, x_max) ==
    LET y0 == IF y_min > A.h THEN A.h ELSE y_min
        y1 == IF y_max > A.h THEN A.h ELSE y_max
        x0 == IF x_min > A.w THEN A.w ELSE x_min
        x1 == IF x_max > A.w THEN A.w ELSE x_max
        hh == IF y1 > y0 THEN y1 - y0 ELSE 0
        ww == IF x1 > x0 THEN x1 - x0 ELSE 0
    IN Arr(hh, ww, A.d, LAMBDA r, c, k : A.px[r + y0][c + x0][k])

(***************************************************************************)
(* Errors.                                                                 *)
(***************************************************************************)
NoError == ""
AlphaMaskError == "ValueError: Provided image does not contain alpha mask."
BroadcastError == "ValueError: operands could not be broadcast together"
RandintError == "ValueError: low >= high"

(***************************************************************************)
(* Inputs of the compositors.                                              *)
(***************************************************************************)
\* the alpha values of the input images: opaque, transparent, half
AlphaLevels == <<255, 0, 128>>

\* The input image of shape (h, w, d) number s: distinct colour values at
\* distinct pixels, and in the last channel of a 4-channel image the alpha
\* levels in turn, starting at level s.
TestImage(h, w, d, s) ==
    Arr(h, w, d, LAMBDA r, c, k :
        IF k = 4 THEN AlphaLevels[((r * w + c + s) % 3) + 1]
        ELSE 40 * k + 5 * (r * w + c) + s)

ChannelCounts == {1, 3, 4}

InputImages ==
    {TestImage(h, w, d, s) : h \in 1..MaxDim, w \in 1..MaxDim,
                             d \in ChannelCounts, s \in 0..2}

\* the values random.randint(0, 256, 3) is drawn from
Colours == {<<0, 0, 0>>, <<255, 255, 255>>, <<12, 200, 77>>}

\* self.background_color = None
NoColor == <<>>
ConfiguredColors == {NoColor, <<10, 20, 30>>}

\* the background images on disk, by path: ops.load_image(path)
BackgroundFile(h, w, base) == Arr(h, w, 3, LAMBDA r, c, k : base + 10 * (r * w + c) + k)
BackgroundPaths == <<"bg_1x3.png", "bg_2x2.png", "bg_3x3.png", "bg_3x4.png">>
load_image(path) ==
    CASE path = "bg_1x3.png" -> BackgroundFile(1, 3, 1)
      [] path = "bg_2x2.png" -> BackgroundFile(2, 2, 2)
      [] path = "bg_3x3.png" -> BackgroundFile(3, 3, 3)
      [] OTHER -> BackgroundFile(3, 4, 4)

\* ops.convert_image(background, ops.BGR2RGB): the channel order reversed
convert_image_BGR2RGB(A) == Arr(A.h, A.w, A.d, LAMBDA r, c, k : A.px[r][c][A.d + 1 - k])

\* np.random.randint(low, high): the integers of [low, high); it raises when empty
RandInt(low, high) == low..(high - 1)

(***************************************************************************)
(* AddPlainBackground and AddCroppedBackground.                            *)
(***************************************************************************)
\* what _crop_image did: "" (not called), "None", "patch" or "raised"
NoCrop == [status |-> "", H |-> 0, W |-> 0, x_min |-> 0, y_min |-> 0, x_max |-> 0, y_max |-> 0]

\* HasAlphaMask with the test loosened: three channels or more pass
HasAlphaMask_atLeast3(image) == image.d >= 3

\* image.shape[-1] != 4, negated
HasAlphaMask(image) == image.d = 4

\* the outcome of a call that raised `err` after the draws `draws`
Failure(err, draws, loaded, crop) ==
    [err |-> err, out |-> NoArray, draws |-> draws, loaded |-> loaded,
     bg |-> NoArray, crop |-> crop]

\* foreground + background, as the outcome of a call
Composite(result, draws, loaded, bg, crop) ==
    IF IsRaised(result)
    THEN [err |-> BroadcastError, out |-> NoArray, draws |-> draws, loaded |-> loaded,
          bg |-> bg, crop |-> crop]
    ELSE [err |-> NoError, out |-> result, draws |-> draws, loaded |-> loaded,
          bg |-> bg, crop |-> crop]

\* AddPlainBackground.call(image); color is the value random.randint(0, 256, 3)
\* returns if it is called
AddPlainBackground_call(image, color) ==
    IF ~HasAlphaMask(image) THEN Failure(AlphaMaskError, <<>>, "", NoCrop)
    ELSE
        LET foreground == SplitForeground(image)
            alpha == Div255(SplitAlpha(image))
            random == background_color = NoColor
            plain == IF random THEN Ones(image.h, image.w, color)
                     ELSE Ones(image.h, image.w, background_color)
            background == IF random THEN Mul(OneMinus(alpha), AsFloat(plain))
                          ELSE AsFloat(plain)
            scaled == Mul(alpha, AsFloat(foreground))
        IN Composite(Add(scaled, background),
                     IF random THEN <<"color">> ELSE <<>>, "", plain, NoCrop)

\* CropAbandoned with strict comparisons: only a smaller background is refused
CropAbandoned_strict(box, H, W) == box > H \/ box > W

\* (self.box_size >= H) or (self.box_size >= W)
CropAbandoned(box, H, W) == box >= H \/ box >= W

\* AddCroppedBackground._crop_image(background_image); x_min and y_min are the
\* values np.random.randint returns where it is called
AddCroppedBackground_crop_image(background_image, x_min, y_min) ==
    LET H == background_image.h
        W == background_image.w
        x_max == x_min + box_size
        y_max == y_min + box_size
        at == [NoCrop EXCEPT !.H = H, !.W = W]
    IN IF CropAbandoned(box_size, H, W) THEN [at EXCEPT !.status = "None"]
       ELSE IF W - box_size <= 0 \/ H - box_size <= 0
            THEN [at EXCEPT !.status = "raised"]
       ELSE IF y_min > y_max \/ x_min > x_max THEN [at EXCEPT !.status = "None"]
       ELSE [status |-> "patch", H |-> H, W |-> W, x_min |-> x_min, y_min |-> y_min,
             x_max |-> x_max, y_max |-> y_max]

\* the background AddCroppedBackground.call hands to _crop_image
LoadedBackground(random_arg) ==
    LET background == load_image(image_filepaths[random_arg + 1])
    IN IF color_model = "RGB" THEN convert_image_BGR2RGB(background) ELSE background

\* the random draws _crop_image makes, in order
CropDraws(crop) ==
    IF crop.status = "patch" THEN <<"x_min", "y_min">>
    ELSE IF crop.status = "raised"
         THEN (IF crop.W - box_size <= 0 THEN <<"x_min">> ELSE <<"x_min", "y_min">>)
    ELSE <<>>

\* AddCroppedBackground.call(image)
AddCroppedBackground_call(image, random_arg, x_min, y_min, color) ==
    IF ~HasAlphaMask(image) THEN Failure(AlphaMaskError, <<>>, "", NoCrop)
    ELSE
        LET foreground == SplitForeground(image)
            alpha == Div255(SplitAlpha(image))
            path == image_filepaths[random_arg + 1]
            loaded == LoadedBackground(random_arg)
            crop == AddCroppedBackground_crop_image(loaded, x_min, y_min)
            draws == <<"random_arg">> \o CropDraws(crop)
            background == IF crop.status = "None" THEN Ones(image.h, image.w, color)
                          ELSE Slice(loaded, crop.y_min, crop.y_max, crop.x_min, crop.x_max)
            scaled == Mul(OneMinus(alpha), AsFloat(background))
        IN IF crop.status = "raised" THEN Failure(RandintError, draws, path, crop)
           ELSE Composite(Add(Mul(alpha, AsFloat(foreground)), scaled),
                          IF crop.status = "None" THEN draws \o <<"color">> ELSE draws,
                          path, background, crop)

\* the values np.random.randint(0, high) can return for _crop_image; one
\* placeholder where the draw is not made or raises
OffsetDraws(background_image, high) ==
    IF CropAbandoned(box_size, background_image.h, background_image.w) \/ high <= 0
    THEN {0}
    ELSE RandInt(0, high)

CmpIdle ==
    /\ cmpProc = ""
    /\ cmpImage = NoArray
    /\ cmpOut = NoArray
    /\ cmpErr = NoError
    /\ cmpDraws = <<>>
    /\ cmpLoaded = ""
    /\ cmpBg = NoArray
    /\ cmpCrop = NoCrop

\* the processors as constructed
CmpInit ==
    /\ background_color \in ConfiguredColors
    /\ image_filepaths = BackgroundPaths
    /\ box_size \in 1..MaxBox
    /\ color_model \in {"BGR", "RGB"}
    /\ CmpIdle

CmpReturn(proc, image, res) ==
    /\ cmpProc' = proc
    /\ cmpImage' = image
    /\ cmpOut' = res.out
    /\ cmpErr' = res.err
    /\ cmpDraws' = res.draws
    /\ cmpLoaded' = res.loaded
    /\ cmpBg' = res.bg
    /\ cmpCrop' = res.crop
    /\ UNCHANGED <<background_color, image_filepaths, box_size, color_model>>

\* the processors run one call at a time, each to completion: a call starts
\* once the caller has taken the previous call's outcome
PlainCall ==
    /\ cmpProc = ""
    /\ \E image \in InputImages, color \in Colours :
          CmpReturn("AddPlainBackground", image, AddPlainBackground_call(image, color))
    /\ CmpFrame

CroppedCall ==
    /\ cmpProc = ""
    /\ \E image \in InputImages, random_arg \in RandInt(0, Len(image_filepaths)),
          color \in Colours :
          LET loaded == LoadedBackground(random_arg)
          IN \E x_min \in OffsetDraws(loaded, loaded.w - box_size),
                y_min \in OffsetDraws(loaded, loaded.h - box_size) :
                 CmpReturn("AddCroppedBackground", image,
                           AddCroppedBackground_call(image, random_arg, x_min, y_min, color))
    /\ CmpFrame

\* the caller takes the outcome of the call
CmpTakeOutput ==
    /\ cmpProc # ""
    /\ cmpProc' = ""
    /\ cmpImage' = NoArray
    /\ cmpOut' = NoArray
    /\ cmpErr' = NoError
    /\ cmpDraws' = <<>>
    /\ cmpLoaded' = ""
    /\ cmpBg' = NoArray
    /\ cmpCrop' = NoCrop
    /\ UNCHANGED <<background_color, image_filepaths, box_size, color_model>>
    /\ CmpFrame

(***************************************************************************)
(* random.uniform and int() on the grid of multiples of 1/Res.             *)
(***************************************************************************)
\* np.random.uniform(low, high) = low + (high - low) * u with u in [0, 1):
\* [low, high), or low when high = low, or (high, low] when high < low
\* (numpy does not reject high < low)
Uniform(low, high) ==
    IF low < high THEN low..(high - 1)
    ELSE IF low = high THEN {low}
    ELSE (high + 1)..low

\* int(x): truncation towards zero
IntOf(x) == IF x >= 0 THEN x \div Res ELSE -((-x) \div Res)

(***************************************************************************)
(* RandomImageCrop.                                                        *)
(***************************************************************************)
\* for _ in range(50)
MaxTrials == 50

NoneIou == -1
\* self.sample_options; the bounds in tenths, crop = FALSE for the entry None
sample_options ==
    << [crop |-> FALSE, min_iou |-> NoneIou, max_iou |-> NoneIou],
       [crop |-> TRUE, min_iou |-> 1, max_iou |-> NoneIou],
       [crop |-> TRUE, min_iou |-> 3, max_iou |-> NoneIou],
       [crop |-> TRUE, min_iou |-> 7, max_iou |-> NoneIou],
       [crop |-> TRUE, min_iou |-> 9, max_iou |-> NoneIou],
       [crop |-> TRUE, min_iou |-> NoneIou, max_iou |-> NoneIou] >>

NoMode == [crop |-> FALSE, min_iou |-> 0, max_iou |-> 0]
NoDraw == [w |-> 0, h |-> 0, left |-> 0, top |-> 0]
NoRect == <<0, 0, 0, 0>>

\* An image of RandomImageCrop is a view of the rows [top, bottom) and the
\* columns [left, right) of the pixels of the array handed to call; slicing a
\* numpy array gives such a view.
View(top, bottom, left, right) ==
    [top |-> top, bottom |-> bottom, left |-> left, right |-> right]
NoView == View(0, 0, 0, 0)

\* the image handed to RandomImageCrop.call, by shape
CropInput(height, width) == View(0, height, 0, width)

\* v[y_min:y_max, x_min:x_max, :], numpy clipping the slice to the view
SliceView(v, y_min, y_max, x_min, x_max) ==
    LET rows == v.bottom - v.top
        cols == v.right - v.left
        y0 == IF y_min > rows THEN rows ELSE y_min
        y1 == IF y_max > rows THEN rows ELSE y_max
        x0 == IF x_min > cols THEN cols ELSE x_min
        x1 == IF x_max > cols THEN cols ELSE x_max
    IN View(v.top + y0, v.top + (IF y1 > y0 THEN y1 ELSE y0),
            v.left + x0, v.left + (IF x1 > x0 THEN x1 ELSE x0))
CropShapes == {<<MaxCropSide - 1, MaxCropSide>>, <<MaxCropSide, MaxCropSide>>}

\* random.uniform(0.3 * side, side)
SizeDraws(side) == {x \in 0..(side * Res) : 10 * x >= 3 * side * Res /\ x < side * Res}

\* AspectRejected without the upper limit
AspectRejected_lowerOnly(w, h) == 2 * h < w

\* h / w < 0.5 or h / w > 2
AspectRejected(w, h) == 2 * h < w \/ h > 2 * w

\* random.uniform(width - w): the one argument is low; high is 1.0
OffsetUniform(side, size) == Uniform(side * Res - size, Res)

\* np.array([int(left), int(top), int(left + w), int(top + h)])
RectOf(w, h, left, top) == <<IntOf(left), IntOf(top), IntOf(left + w), IntOf(top + h)>>

\* current_image[rect[1]:rect[3], rect[0]:rect[2], :]
CutCrop(current_image, rect) == SliceView(current_image, rect[2], rect[4], rect[1], rect[3])

\* the value of the return statement that follows the cut
ReturnedAfterCut(image, current_image) == image

CropIdle ==
    /\ cropPc = "idle"
    /\ cropShape = <<0, 0>>
    /\ cropMode = NoMode
    /\ cropAttempt = 0
    /\ cropTrials = 0
    /\ cropRound = 0
    /\ cropDraw = NoDraw
    /\ cropRect = NoRect
    /\ cropCurrent = NoView
    /\ cropRet = NoView

CropReturned == cropPc \in {"return_318", "return_347", "return_end"}

\* call(image): height, width = image.shape[:2]
CropCall ==
    /\ cropPc = "idle" \/ CropReturned
    /\ \E shape \in CropShapes : cropShape' = shape
    /\ cropPc' = "choose"
    /\ cropMode' = NoMode
    /\ cropAttempt' = 0
    /\ cropTrials' = 0
    /\ cropRound' = 0
    /\ cropDraw' = NoDraw
    /\ cropRect' = NoRect
    /\ cropCurrent' = NoView
    /\ cropRet' = NoView
    /\ CropFrame

\* mode = random.choice(self.sample_options); if mode is None: return image
CropIdentity ==
    /\ cropPc = "choose"
    /\ cropRound < MaxRounds
    /\ \E i \in 1..Len(sample_options) :
          /\ ~sample_options[i].crop
          /\ cropMode' = sample_options[i]
    /\ cropRound' = cropRound + 1
    /\ cropPc' = "return_318"
    /\ cropRet' = CropInput(cropShape[1], cropShape[2])
    /\ UNCHANGED <<cropShape, cropAttempt, cropTrials, cropDraw, cropRect, cropCurrent>>
    /\ CropFrame

\* mode = random.choice(self.sample_options), a crop mode: enter the for loop
CropBeginTrials ==
    /\ cropPc = "choose"
    /\ cropRound < MaxRounds
    /\ \E i \in 1..Len(sample_options) :
          /\ sample_options[i].crop
          /\ cropMode' = sample_options[i]
    /\ cropRound' = cropRound + 1
    /\ cropAttempt' = 0
    /\ cropPc' = "trial"
    /\ UNCHANGED <<cropShape, cropTrials, cropDraw, cropRect, cropCurrent, cropRet>>
    /\ CropFrame

\* one pass of the for loop that ends in `continue`
CropTrialRejected ==
    /\ cropPc = "trial"
    /\ cropAttempt < MaxTrials
    /\ \E w \in SizeDraws(cropShape[2]), h \in SizeDraws(cropShape[1]) :
          AspectRejected(w, h)
    /\ cropAttempt' = cropAttempt + 1
    /\ cropTrials' = cropTrials + 1
    /\ cropCurrent' = CropInput(cropShape[1], cropShape[2])
    /\ UNCHANGED <<cropPc, cropShape, cropMode, cropRound, cropDraw, cropRect, cropRet>>
    /\ CropFrame

\* one pass of the for loop that reaches the return statement
CropTrialAccepted ==
    /\ cropPc = "trial"
    /\ cropAttempt < MaxTrials
    /\ \E w \in SizeDraws(cropShape[2]), h \in SizeDraws(cropShape[1]) :
          /\ ~AspectRejected(w, h)
          /\ \E left \in OffsetUniform(cropShape[2], w),
                top \in OffsetUniform(cropShape[1], h) :
                LET image == CropInput(cropShape[1], cropShape[2])
                    rect == RectOf(w, h, left, top)
                    current_image == CutCrop(image, rect)
                IN /\ cropDraw' = [w |-> w, h |-> h, left |-> left, top |-> top]
                   /\ cropRect' = rect
                   /\ cropCurrent' = current_image
                   /\ cropRet' = ReturnedAfterCut(image, current_image)
    /\ cropAttempt' = cropAttempt + 1
    /\ cropTrials' = cropTrials + 1
    /\ cropPc' = "return_347"
    /\ UNCHANGED <<cropShape, cropMode, cropRound>>
    /\ CropFrame

\* CropExhausted returning the input image when the loop runs out
CropExhausted_returns ==
    /\ cropPc = "trial"
    /\ cropAttempt = MaxTrials
    /\ cropPc' = "return_end"
    /\ cropRet' = CropInput(cropShape[1], cropShape[2])
    /\ UNCHANGED <<cropShape, cropMode, cropAttempt, cropTrials, cropRound,
                   cropDraw, cropRect, cropCurrent>>
    /\ CropFrame

\* the for loop ran out: back to the head of `while True`
CropExhausted ==
    /\ cropPc = "trial"
    /\ cropAttempt = MaxTrials
    /\ cropPc' = "choose"
    /\ UNCHANGED <<cropShape, cropMode, cropAttempt, cropTrials, cropRound,
                   cropDraw, cropRect, cropCurrent, cropRet>>
    /\ CropFrame

(***************************************************************************)
(* ExpandImage.                                                            *)
(***************************************************************************)
B_IMAGENET_MEAN == 104
G_IMAGENET_MEAN == 117
R_IMAGENET_MEAN == 123
BGR_IMAGENET_MEAN == <<B_IMAGENET_MEAN, G_IMAGENET_MEAN, R_IMAGENET_MEAN>>
RGB_IMAGENET_MEAN == <<R_IMAGENET_MEAN, G_IMAGENET_MEAN, B_IMAGENET_MEAN>>

\* the images handed to ExpandImage.call
ExpandInputs ==
    {TestImage(h, w, d, 0) : h \in 1..MaxExpandSide, w \in 1..MaxExpandSide,
                             d \in ChannelCounts}

\* random.uniform(1, 4)
RatioDraws == Uniform(Res, 4 * Res)

\* ExpandOffsetDraws without the image's own size taken off
ExpandOffsetDraws_wholeCanvas(side, ratio) == Uniform(0, side * ratio)

\* random.uniform(0, side * ratio - side)
ExpandOffsetDraws(side, ratio) == Uniform(0, side * ratio - side * Res)

\* whether `value` of length n can be assigned to a slot of length m
Assignable(n, m) == n = m \/ n = 1

\* ExpandImage.call(image) with the three draws
ExpandImage_call(image, ratio, left, top) ==
    LET height == image.h
        width == image.w
        depth == image.d
        rows == IntOf(height * ratio)
        cols == IntOf(width * ratio)
        \* the slice [int(top):int(top + height), int(left):int(left + width)],
        \* clipped to the canvas
        y0 == IF IntOf(top) > rows THEN rows ELSE IntOf(top)
        y1 == IF IntOf(top + height * Res) > rows THEN rows ELSE IntOf(top + height * Res)
        x0 == IF IntOf(left) > cols THEN cols ELSE IntOf(left)
        x1 == IF IntOf(left + width * Res) > cols THEN cols ELSE IntOf(left + width * Res)
        slot_h == IF y1 > y0 THEN y1 - y0 ELSE 0
        slot_w == IF x1 > x0 THEN x1 - x0 ELSE 0
    IN IF ~Assignable(Len(expMean), depth) THEN Raised
       ELSE IF ~(Assignable(height, slot_h) /\ Assignable(width, slot_w)) THEN Raised
       ELSE Arr(rows, cols, depth, LAMBDA r, c, k :
                IF r >= y0 /\ r < y1 /\ c >= x0 /\ c < x1
                THEN At(image, r - y0, c - x0, k)
                ELSE expMean[IF Len(expMean) = 1 THEN 1 ELSE k])

ExpIdle ==
    /\ expImage = NoArray
    /\ expDraw = [ratio |-> 0, left |-> 0, top |-> 0]
    /\ expOut = NoArray

ExpInit ==
    /\ expMean \in {BGR_IMAGENET_MEAN, RGB_IMAGENET_MEAN}
    /\ ExpIdle

ExpandCall ==
    /\ expImage = NoArray
    /\ \E image \in ExpandInputs, ratio \in RatioDraws :
          \E left \in ExpandOffsetDraws(image.w, ratio),
             top \in ExpandOffsetDraws(image.h, ratio) :
              /\ expImage' = image
              /\ expDraw' = [ratio |-> ratio, left |-> left, top |-> top]
              /\ expOut' = ExpandImage_call(image, ratio, left, top)
    /\ UNCHANGED expMean
    /\ ExpFrame

\* the caller takes the expanded image
ExpTakeOutput ==
    /\ expImage # NoArray
    /\ expImage' = NoArray
    /\ expDraw' = [ratio |-> 0, left |-> 0, top |-> 0]
    /\ expOut' = NoArray
    /\ UNCHANGED expMean
    /\ ExpFrame

(***************************************************************************)
(* AddOcclusion.                                                           *)
(***************************************************************************)
\* 2 * np.pi, in the units angles are held in (a multiple of 3, 4, 5 and 6)
FullTurn == 60

\* np.random.randint(3, 7)
NumVerticesDraws == RandInt(3, 7)

\* 2 * np.pi / num_vertices
AngleBetweenVertices(num_vertices) == FullTurn \div num_vertices

\* VertexAngle with the turn divided among num_vertices - 1 steps
VertexAngle_closed(initial_angle, vertex_arg, num_vertices) ==
    initial_angle + vertex_arg * (FullTurn \div (num_vertices - 1))

\* initial_angle + (vertex_arg * angle_between_vertices)
VertexAngle(initial_angle, vertex_arg, num_vertices) ==
    initial_angle + vertex_arg * AngleBetweenVertices(num_vertices)

\* np.max((height, width)) * self.max_radius_scale, max_radius_scale = 1/2:
\* twice the numerator over Res
MaxDistance2(height, width) == (IF height > width THEN height ELSE width) * Res

\* np.random.uniform(0, max_distance): here the least and the largest radius
RadiusDraws(height, width) ==
    LET all == {x \in 0..MaxDistance2(height, width) : 2 * x < MaxDistance2(height, width)}
    IN {0} \cup {x \in all : \A y \in all : y <= x}

\* np.random.rand(2) * np.array([width, height]): here two of the corners' cells
CenterDraws(height, width) == {<<0, 0>>, <<width * Res - 1, height * Res - 1>>}

OccShapes == {<<MaxDim, MaxDim>>, <<1, MaxDim>>}

\* the polygon handed to ops.draw_filled_polygon: vertex vertex_arg + 1 in polar
\* form about the center (np.cos and np.sin are not evaluated here)
OcclusionVertices(num_vertices, initial_angle, radii) ==
    [i \in 1..num_vertices |->
        [angle |-> VertexAngle(initial_angle, i - 1, num_vertices), radius |-> radii[i]]]

OccIdle ==
    /\ occShape = <<0, 0>>
    /\ occNum = 0
    /\ occInitial = 0
    /\ occCenter = <<0, 0>>
    /\ occVertices = <<>>
    /\ occColor = <<>>

OcclusionCall ==
    /\ occNum = 0
    /\ \E shape \in OccShapes, num_vertices \in NumVerticesDraws,
          initial_angle \in Uniform(0, FullTurn) :
          \E center \in CenterDraws(shape[1], shape[2]),
             radii \in [1..num_vertices -> RadiusDraws(shape[1], shape[2])],
             color \in {<<0, 0, 0>>, <<255, 255, 255>>} :
              /\ occShape' = shape
              /\ occNum' = num_vertices
              /\ occInitial' = initial_angle
              /\ occCenter' = center
              /\ occVertices' = OcclusionVertices(num_vertices, initial_angle, radii)
              /\ occColor' = color
    /\ OccFrame

\* the caller takes the occluded image
OccTakeOutput ==
    /\ occNum # 0
    /\ occShape' = <<0, 0>>
    /\ occNum' = 0
    /\ occInitial' = 0
    /\ occCenter' = <<0, 0>>
    /\ occVertices' = <<>>
    /\ occColor' = <<>>
    /\ OccFrame

(***************************************************************************)
(* HandKeypoints.                                                          *)
(***************************************************************************)
TypeError == "TypeError: expected str, bytes or os.PathLike object, not list"
AttributeError == "AttributeError: 'list' object has no attribute 'to_numpy'"
IndexError == "IndexError: index out of bounds"

File(stem, ext) == [stem |-> stem, ext |-> ext]
\* the files a directory of the data set may hold
DataFiles == {File("a", ".jpg"), File("b", ".jpg"), File("a", ".json"),
              File("b", ".json"), File("notes", ".txt")}

IsListing(s) == \A i, j \in DOMAIN s : i # j => s[i] # s[j]
\* os.listdir: the entries of a directory in any order
Listings(files, n) ==
    {s \in UNION {[1..k -> files] : k \in 0..n} : IsListing(s)}

\* self.path: one root (a str) or a list of roots
StrPath(root) == [str |-> TRUE, roots |-> <<root>>]
ListPath(roots) == [str |-> FALSE, roots |-> roots]
LoaderPaths == {StrPath("r1"), ListPath(<<"r1">>), ListPath(<<"r1", "r2">>)}

\* os.path.splitext(file)[1]
splitext1(file) == file.ext

\* str(os.path.join(path, file)) for a str path
join(path, file) == [dir |-> path, stem |-> file.stem, ext |-> file.ext]

\* the files of `listing` with extension ext, joined with `path`
Joined(path, listing, ext) ==
    LET n == Len(listing)
        at[i \in 0..n] ==
            IF i = 0 THEN <<>>
            ELSE IF splitext1(listing[i]) = ext THEN Append(at[i - 1], join(path, listing[i]))
            ELSE at[i - 1]
    IN at[n]

Recognized(file) == splitext1(file) = ".jpg" \/ splitext1(file) = ".json"

\* HandKeypoints._load_paths(path), path = self.path
load_paths(path) ==
    IF path.str
    THEN [err |-> NoError,
          image_paths |-> Joined(path.roots[1], fs[path.roots[1]], ".jpg"),
          label_paths |-> Joined(path.roots[1], fs[path.roots[1]], ".json")]
    ELSE \* os.path.join(path, file) is given the list of roots
         IF \E i \in DOMAIN path.roots :
                \E j \in DOMAIN fs[path.roots[i]] : Recognized(fs[path.roots[i]][j])
         THEN [err |-> TypeError, image_paths |-> <<>>, label_paths |-> <<>>]
         ELSE [err |-> NoError, image_paths |-> <<>>, label_paths |-> <<>>]

\* HandKeypoints._load_images: row arg holds the resized image of image_paths[arg]
load_images(image_paths) == image_paths

\* HandKeypoints._load_labels: json.load gives a list for data['hand_pts']
load_labels(label_paths) ==
    IF Len(label_paths) > 0 THEN [err |-> AttributeError, keypoints |-> <<>>]
    ELSE [err |-> NoError, keypoints |-> <<>>]

NoPath == [dir |-> "", stem |-> "", ext |-> ""]

\* HandKeypoints._to_list_of_dictionaries(hands, keypoints)
to_list_of_dictionaries(hands, keypoints, has_keypoints) ==
    IF has_keypoints /\ Len(keypoints) < Len(hands)
    THEN [err |-> IndexError, dataset |-> <<>>]
    ELSE [err |-> NoError,
          dataset |-> [arg \in 1..Len(hands) |->
                          [image |-> hands[arg],
                           keypoints |-> IF has_keypoints THEN keypoints[arg] ELSE NoPath]]]

\* HandKeypoints.load_data()
load_data ==
    LET paths == load_paths(ldPath)
        hands == load_images(paths.image_paths)
        labels == load_labels(paths.label_paths)
    IN IF paths.err # NoError THEN [err |-> paths.err, dataset |-> <<>>]
       ELSE IF ldSplit = "train"
            THEN IF labels.err # NoError THEN [err |-> labels.err, dataset |-> <<>>]
                 ELSE to_list_of_dictionaries(hands, labels.keypoints, TRUE)
       ELSE to_list_of_dictionaries(hands, <<>>, FALSE)

LdIdle ==
    /\ ldCall = ""
    /\ ldErr = NoError
    /\ ldImagePaths = <<>>
    /\ ldLabelPaths = <<>>
    /\ ldDataset = <<>>

\* the directory tree, and HandKeypoints(path, image_size, split)
LdInit ==
    /\ \E l1 \in Listings(DataFiles, MaxListing),
          l2 \in {<<>>, <<File("c", ".json"), File("c", ".jpg")>>} :
            fs = [r1 |-> l1, r2 |-> l2]
    /\ ldPath \in LoaderPaths
    /\ ldSplit \in {"train", "test"}
    /\ LdIdle

LoadPathsCall ==
    LET paths == load_paths(ldPath)
    IN /\ ldCall' = "_load_paths"
       /\ ldErr' = paths.err
       /\ ldImagePaths' = paths.image_paths
       /\ ldLabelPaths' = paths.label_paths
       /\ ldDataset' = <<>>
       /\ UNCHANGED <<fs, ldPath, ldSplit>>
       /\ LdFrame

LoadDataCall ==
    LET paths == load_paths(ldPath)
        data == load_data
    IN /\ ldCall' = "load_data"
       /\ ldErr' = data.err
       /\ ldImagePaths' = paths.image_paths
       /\ ldLabelPaths' = paths.label_paths
       /\ ldDataset' = data.dataset
       /\ UNCHANGED <<fs, ldPath, ldSplit>>
       /\ LdFrame

(***************************************************************************)
(* The specifications.                                                     *)
(***************************************************************************)
\* the values the variables of a family have while another family runs
CmpOff ==
    /\ background_color = NoColor
    /\ image_filepaths = <<>>
    /\ box_size = 0
    /\ color_model = ""
    /\ CmpIdle
ExpOff == expMean = <<>> /\ ExpIdle
LdOff ==
    /\ fs = [r1 |-> <<>>, r2 |-> <<>>]
    /\ ldPath = StrPath("")
    /\ ldSplit = ""
    /\ LdIdle

\* AddPlainBackground and AddCroppedBackground
InitCompose == CmpInit /\ CropIdle /\ ExpOff /\ OccIdle /\ LdOff
NextCompose == PlainCall \/ CroppedCall \/ CmpTakeOutput
SpecCompose == InitCompose /\ [][NextCompose]_vars

\* RandomImageCrop
InitCrop == CmpOff /\ CropIdle /\ ExpOff /\ OccIdle /\ LdOff
NextCrop ==
    \/ CropCall
    \/ CropIdentity
    \/ CropBeginTrials
    \/ CropTrialRejected
    \/ CropTrialAccepted
    \/ CropExhausted
SpecCrop == InitCrop /\ [][NextCrop]_vars

\* ExpandImage
InitExpand == CmpOff /\ CropIdle /\ ExpInit /\ OccIdle /\ LdOff
NextExpand == ExpandCall \/ ExpTakeOutput
SpecExpand == InitExpand /\ [][NextExpand]_vars

\* AddOcclusion
InitOcclusion == CmpOff /\ CropIdle /\ ExpOff /\ OccIdle /\ LdOff
NextOcclusion == OcclusionCall \/ OccTakeOutput
SpecOcclusion == InitOcclusion /\ [][NextOcclusion]_vars

\* HandKeypoints
InitLoader == CmpOff /\ CropIdle /\ ExpOff /\ OccIdle /\ LdInit
NextLoader == LoadPathsCall \/ LoadDataCall
SpecLoader == InitLoader /\ [][NextLoader]_vars

(***************************************************************************)
(* The compositors: alpha blending, the alpha mask check, the crop of the  *)
(* background.                                                             *)
(***************************************************************************)
\* out = alpha * foreground + (1 - alpha) * background at every pixel and
\* channel, alpha = image[..., 3] / 255 (all in units of 1/AlphaMax)
IsAlphaBlend(out, image, background) ==
    \A r \in 0..(out.h - 1), c \in 0..(out.w - 1), k \in 1..out.d :
        out.px[r][c][k] =
            At(image, r, c, 4) * At(image, r, c, k)
            + (AlphaMax - At(image, r, c, 4)) * At(background, r, c, k)

\* a call of a compositor on an image with an alpha channel has returned
CmpReturnedFor4 == cmpProc # "" /\ cmpImage.d = 4 /\ cmpErr = NoError

\* C1: for every 4-channel input the output of AddPlainBackground.call (colour
\* configured or drawn) and of AddCroppedBackground.call is, at every pixel
\* and channel, alpha * foreground + (1 - alpha) * background; so a pixel of
\* alpha 255 is the foreground and a pixel of alpha 0 is the background.
C1_OutputIsAlphaBlend ==
    CmpReturnedFor4 =>
        /\ cmpOut.d = 3
        /\ IsAlphaBlend(cmpOut, cmpImage, cmpBg)

\* C7: both compositors raise the error that names the missing alpha mask for
\* every input whose last dimension is not 4, before any random draw, any
\* load of a background file and any output; for 4 channels they never raise it.
C7_AlphaMaskRequired ==
    cmpProc # "" =>
        /\ cmpImage.d # 4 =>
              /\ cmpErr = AlphaMaskError
              /\ cmpDraws = <<>>
              /\ cmpLoaded = ""
              /\ cmpCrop = NoCrop
              /\ cmpBg = NoArray
              /\ cmpOut = NoArray
        /\ cmpImage.d = 4 => cmpErr # AlphaMaskError

\* a 3-channel image was refused by AddCroppedBackground
C7_Witness ==
    /\ cmpProc = "AddCroppedBackground"
    /\ cmpImage.d = 3
    /\ cmpErr = AlphaMaskError

\* AddCroppedBackground.call went past the alpha mask check
CroppedRan == cmpProc = "AddCroppedBackground" /\ cmpImage.d = 4

\* the call composited over a solid colour of the input's (H, W, 3) shape
OverSolidColour ==
    /\ cmpCrop.status = "None"
    /\ \E color \in Colours : cmpBg = Ones(cmpImage.h, cmpImage.w, color)
    /\ cmpErr = NoError
    /\ IsAlphaBlend(cmpOut, cmpImage, cmpBg)

\* _crop_image returned a box_size x box_size patch inside the background,
\* and the call composited over it
OverPatch ==
    /\ cmpCrop.status = "patch"
    /\ 0 <= cmpCrop.x_min /\ cmpCrop.x_min < cmpCrop.x_max /\ cmpCrop.x_max <= cmpCrop.W
    /\ 0 <= cmpCrop.y_min /\ cmpCrop.y_min < cmpCrop.y_max /\ cmpCrop.y_max <= cmpCrop.H
    /\ cmpCrop.x_max - cmpCrop.x_min = box_size
    /\ cmpCrop.y_max - cmpCrop.y_min = box_size
    /\ cmpBg.h = box_size /\ cmpBg.w = box_size
    /\ \E random_arg \in RandInt(0, Len(image_filepaths)) :
          /\ cmpLoaded = image_filepaths[random_arg + 1]
          /\ cmpBg = Slice(LoadedBackground(random_arg), cmpCrop.y_min, cmpCrop.y_max,
                           cmpCrop.x_min, cmpCrop.x_max)
    /\ cmpErr \in {NoError, BroadcastError}
    /\ cmpErr = NoError => IsAlphaBlend(cmpOut, cmpImage, cmpBg)

\* C10 as stated: the crop is abandoned, and a solid colour used, if the
\* background is smaller than box_size in height or width; a background of
\* height and width both at least box_size gives a box_size x box_size patch
\* inside it, which is the background of the composite.
C10_AbandonedIffSmaller ==
    CroppedRan =>
        /\ (cmpCrop.H < box_size \/ cmpCrop.W < box_size) => OverSolidColour
        /\ (cmpCrop.H >= box_size /\ cmpCrop.W >= box_size) => OverPatch

\* C10 amended: the crop is abandoned also when the height or the width
\* equals box_size; the patch is cut from a background strictly larger than
\* box_size in both.
C10_AbandonedIffNotLarger ==
    CroppedRan =>
        /\ (cmpCrop.H <= box_size \/ cmpCrop.W <= box_size) => OverSolidColour
        /\ (cmpCrop.H > box_size /\ cmpCrop.W > box_size) => OverPatch

\* a crop abandoned for a background exactly box_size high, composited over
\* a solid colour
C10_Witness ==
    /\ CroppedRan
    /\ cmpCrop.H = box_size
    /\ cmpCrop.W >= box_size
    /\ cmpCrop.status = "None"
    /\ cmpErr = NoError
    /\ cmpOut.h = cmpImage.h

(***************************************************************************)
(* RandomImageCrop: the returned value, the rectangle, the retry limit.    *)
(***************************************************************************)
\* C2: on a trial the aspect-ratio check does not reject, the call returns at
\* once and returns the region image[y1:y2, x1:x2] of that trial's rectangle.
C2_ReturnsTheCrop ==
    cropPc = "return_347" =>
        cropRet = CutCrop(CropInput(cropShape[1], cropShape[2]), cropRect)

\* the integer rectangle lies within the image
RectInBounds ==
    /\ 0 <= cropRect[1] /\ cropRect[1] <= cropRect[3] /\ cropRect[3] <= cropShape[2]
    /\ 0 <= cropRect[2] /\ cropRect[2] <= cropRect[4] /\ cropRect[4] <= cropShape[1]

\* 0.5 <= (y2 - y1) / (x2 - x1) <= 2.0
RectAspectInRange ==
    /\ cropRect[3] > cropRect[1]
    /\ 2 * (cropRect[4] - cropRect[2]) >= cropRect[3] - cropRect[1]
    /\ cropRect[4] - cropRect[2] <= 2 * (cropRect[3] - cropRect[1])

C8_VerticesByIncreasingAngle ==
    occNum # 0 =>
        /\ occNum \in {3, 4, 5, 6}
        /\ Len(occVertices) = occNum
        /\ \A i \in 1..occNum :
              occNum * (occVertices[i].angle - occInitial) = (i - 1) * FullTurn
        /\ \A i \in 1..(occNum - 1) : occVertices[i].angle < occVertices[i + 1].angle
        /\ occVertices[occNum].angle - occVertices[1].angle < FullTurn

\* a hexagon
C8_Witness ==
    /\ occNum = 6
    /\ Len(occVertices) = 6
    /\ occVertices[6].angle > FullTurn

(***************************************************************************)
(* HandKeypoints: the paths and the samples.                               *)
(***************************************************************************)
\* the files of every root with extension ext, each joined with its root
FilesOfRoots(ext) ==
    {join(ldPath.roots[i], fs[ldPath.roots[i]][j]) :
        <<i, j>> \in {p \in (DOMAIN ldPath.roots) \X (1..MaxListing + 1) :
                        /\ p[2] \in DOMAIN fs[ldPath.roots[p[1]]]
                        /\ splitext1(fs[ldPath.roots[p[1]]][p[2]]) = ext}}

Range(seq) == {seq[i] : i \in DOMAIN seq}

\* C9: _load_paths takes one root or a list of roots; for a list it returns,
\* without error, every '.jpg' file of every root among the image paths and
\* every '.json' file of every root among the label paths, each joined with
\* its root; files of any other extension are in neither.
C9_PathsOfEveryRoot ==
    ldCall = "_load_paths" =>
        /\ ldErr = NoError
        /\ Range(ldImagePaths) = FilesOfRoots(".jpg")
        /\ Range(ldLabelPaths) = FilesOfRoots(".json")

\* the listing of the root holds as many .jpg as .json files, with the same stems
StemsMatch ==
    LET listing == fs[ldPath.roots[1]]
    IN {f.stem : f \in {g \in Range(listing) : g.ext = ".jpg"}}
         = {f.stem : f \in {g \in Range(listing) : g.ext = ".json"}}
\* the number of .jpg files of the root
NumImages == Cardinality({g \in Range(fs[ldPath.roots[1]]) : g.ext = ".jpg"})

\* C6: given a listing, in any order, of N .jpg and N .json files with
\* matching stems, load_data() with split 'train' returns N samples, and the
\* keypoints of sample i come from the label file with the stem of the image
\* file of sample i.
C6_SamplesAlignedByStem ==
    (ldCall = "load_data" /\ ldSplit = "train" /\ ldPath.str /\ StemsMatch) =>
        /\ ldErr = NoError
        /\ Len(ldDataset) = NumImages
        /\ \A i \in DOMAIN ldDataset :
              /\ ldDataset[i].image.ext = ".jpg"
              /\ ldDataset[i].keypoints.ext = ".json"
              /\ ldDataset[i].keypoints.stem = ldDataset[i].image.stem

====
